---- MODULE Spec2Model ----
(***************************************************************************)
(* Chunk-processing pipeline of the bilingual terminology extractor:       *)
(* the chunker, the per-chunk retry driver and the aggregation step of     *)
(* processTmxInChunks, and the orchestrator extractTerminology.            *)
(***************************************************************************)
EXTENDS Integers, Sequences, FiniteSets, TLC

\* ------------------------------------------------------------------ bounds
\* longest small document (number of translation units)
MaxUnits == 3
\* number of translation units of the large, uniform document
LargeDocUnits == 250
\* longest list one extraction call returns in the aggregation runs
MaxRawLen == 2
\* longest document of the runs checked for termination
MaxLiveUnits == 2

\* ------------------------------------------------------- program constants
\* generatePrompt: translationUnits.slice(0, 100)
SampleLimit == 100
\* Variant of maxRetries: one retry more.
maxRetries_OneMore == 2 + 1

\* processTmxInChunks: const maxRetries = 2
maxRetries == 2
\* processTmxInChunks: setTimeout(resolve, 1000 * Math.pow(2, retryCount))
BackoffBaseMs == 1000
\* processTmxInChunks / extractTerminology: maxTokensPerChunk = 100000
DefaultMaxTokensPerChunk == 100000

Min(a, b) == IF a < b THEN a ELSE b

RECURSIVE Pow2(_)
Pow2(n) == IF n = 0 THEN 1 ELSE 2 * Pow2(n - 1)

\* ------------------------------------------------------------ input values
\* Translation units: (source, target) texts.  2 and 9 characters combined,
\* costs 1 and 3 tokens.
Unit(s, t) == [source |-> s, target |-> t]
UnitPool == { Unit("a", "b"), Unit("abcde", "fghi") }
\* 40 characters combined, 10 tokens
LargeUnit == Unit("aaaaaaaaaaaaaaaaaaaa", "bbbbbbbbbbbbbbbbbbbb")

SeqsUpTo(S, n) == UNION { [1..k -> S] : k \in 0..n }

SmallDocs == SeqsUpTo(UnitPool, MaxUnits)
LargeDocs == { [k \in 1..LargeDocUnits |-> LargeUnit] }

SmallBudgets == {1, 2, 4}
LargeBudgets == {1000, 1450, DefaultMaxTokensPerChunk}

\* (translationUnits, maxTokensPerChunk) of a run
RunInputs == (SmallDocs \X SmallBudgets) \cup (LargeDocs \X LargeBudgets)

\* JavaScript values returned by the extraction call.  A string is the
\* sequence of its characters.
Str(chars) == [type |-> "string", value |-> chars]
Undefined == [type |-> "undefined"]
Null == [type |-> "null"]
Pair(s, t) == [type |-> "object", sourceTerm |-> s, targetTerm |-> t]

\* Non-empty lists the extraction call can return.
ResultA ==
  << Pair(Str(<<"A", "b">>), Str(<<"x">>)),
     Pair(Str(<<"c">>), Str(<<" ">>)) >>
ResultB ==
  << Pair(Str(<<"a", "b">>), Str(<<"x", "y">>)), Null >>
ApiResults == {ResultA, ResultB}

\* A field that is not text.
Num == [type |-> "number"]

\* Raw entries of the aggregation runs: one group in three casings with
\* targets of length 1, 2 and 2, an entry padded with whitespace, and
\* entries the validation rejects (blank target, null, missing sourceTerm,
\* targetTerm that is not text).
RawEntries ==
  { Pair(Str(<<"A", "b">>), Str(<<"x">>)),
    Pair(Str(<<"a", "b">>), Str(<<"x", "y">>)),
    Pair(Str(<<"A", "B">>), Str(<<"z", "z">>)),
    Pair(Str(<<" ", "a", "b">>), Str(<<"x", " ">>)),
    Pair(Str(<<"a", "B">>), Str(<<" ">>)),
    Null,
    Pair(Undefined, Str(<<"x">>)),
    Pair(Str(<<"c">>), Num) }

\* Non-empty lists of raw entries one extraction call returns.
RawLists == SeqsUpTo(RawEntries, MaxRawLen) \ {<<>>}

\* Documents of the aggregation runs: one or two units, one chunk each
\* under a budget of one token.
AggDocs == { <<Unit("a", "b")>>, <<Unit("a", "b"), Unit("a", "b")>> }

\* ----------------------------------------------------------------- chunker
\* Math.ceil(text.length / 4)
estimateTokens(text) == (Len(text) + 3) \div 4

unitTokens(unit) == estimateTokens(unit.source \o unit.target)

\* Variant of ChunkStep: the unit is added only when no chunk is closed.
ChunkStep_DropUnit(st, unit, maxTokens) ==
  IF st.currentChunkTokens + unitTokens(unit) > maxTokens
     /\ Len(st.currentChunk) > 0
  THEN [chunks |-> Append(st.chunks, st.currentChunk),
        currentChunk |-> <<>>,
        currentChunkTokens |-> 0]
  ELSE [chunks |-> st.chunks,
        currentChunk |-> Append(st.currentChunk, unit),
        currentChunkTokens |-> st.currentChunkTokens + unitTokens(unit)]

\* Variant of ChunkStep: the budget test ignores the unit about to be added.
ChunkStep_NoLookahead(st, unit, maxTokens) ==
  IF st.currentChunkTokens > maxTokens
     /\ Len(st.currentChunk) > 0
  THEN [chunks |-> Append(st.chunks, st.currentChunk),
        currentChunk |-> <<unit>>,
        currentChunkTokens |-> unitTokens(unit)]
  ELSE [chunks |-> st.chunks,
        currentChunk |-> Append(st.currentChunk, unit),
        currentChunkTokens |-> st.currentChunkTokens + unitTokens(unit)]

\* Variant of ChunkStep: currentChunk is not replaced by a new array when a
\* chunk is closed, so every closed chunk is the array that keeps growing.
ChunkStep_SharedArray(st, unit, maxTokens) ==
  IF st.currentChunkTokens + unitTokens(unit) > maxTokens
     /\ Len(st.currentChunk) > 0
  THEN [chunks |-> [n \in 1..(Len(st.chunks) + 1) |->
                      Append(st.currentChunk, unit)],
        currentChunk |-> Append(st.currentChunk, unit),
        currentChunkTokens |-> unitTokens(unit)]
  ELSE [chunks |-> [n \in DOMAIN st.chunks |->
                      Append(st.currentChunk, unit)],
        currentChunk |-> Append(st.currentChunk, unit),
        currentChunkTokens |-> st.currentChunkTokens + unitTokens(unit)]

\* Variant of ChunkStep: the chunk is closed when the unit would fill the
\* budget exactly.
ChunkStep_CloseEarly(st, unit, maxTokens) ==
  IF st.currentChunkTokens + unitTokens(unit) >= maxTokens
     /\ Len(st.currentChunk) > 0
  THEN [chunks |-> Append(st.chunks, st.currentChunk),
        currentChunk |-> <<unit>>,
        currentChunkTokens |-> unitTokens(unit)]
  ELSE [chunks |-> st.chunks,
        currentChunk |-> Append(st.currentChunk, unit),
        currentChunkTokens |-> st.currentChunkTokens + unitTokens(unit)]

\* Body of the for-loop over allTranslationUnits, on the loop's locals
\* chunks, currentChunk and currentChunkTokens (the record st).
ChunkStep(st, unit, maxTokens) ==
  IF st.currentChunkTokens + unitTokens(unit) > maxTokens
     /\ Len(st.currentChunk) > 0
  THEN [chunks |-> Append(st.chunks, st.currentChunk),
        currentChunk |-> <<unit>>,
        currentChunkTokens |-> unitTokens(unit)]
  ELSE [chunks |-> st.chunks,
        currentChunk |-> Append(st.currentChunk, unit),
        currentChunkTokens |-> st.currentChunkTokens + unitTokens(unit)]

\* Variant of FinalPush: the last chunk is added even when it is empty.
FinalPush_Always(st) == Append(st.chunks, st.currentChunk)

\* "Add the last chunk if it has any units"
FinalPush(st) ==
  IF Len(st.currentChunk) > 0
  THEN Append(st.chunks, st.currentChunk)
  ELSE st.chunks

\* ---------------------------------------------------------- prompt builder
\* The data generatePrompt puts into the prompt text.
generatePrompt(tmxData, datasetInfo) ==
  [datasetInfo |-> datasetInfo,
   sourceLanguage |-> tmxData.sourceLanguage,
   targetLanguage |-> tmxData.targetLanguage,
   translationSamples |->
     SubSeq(tmxData.translationUnits, 1,
            Min(Len(tmxData.translationUnits), SampleLimit))]

\* -------------------------------------------------------------- aggregator
LowerChar(c) ==
  CASE c = "A" -> "a"
    [] c = "B" -> "b"
    [] c = "C" -> "c"
    [] c = "X" -> "x"
    [] c = "Y" -> "y"
    [] OTHER -> c

\* String.prototype.toLowerCase
toLowerCase(chars) == [k \in DOMAIN chars |-> LowerChar(chars[k])]

IsSpace(c) == c = " "

\* String.prototype.trim
RECURSIVE trim(_)
trim(chars) ==
  IF chars = <<>> THEN chars
  ELSE IF IsSpace(Head(chars)) THEN trim(Tail(chars))
  ELSE IF IsSpace(chars[Len(chars)])
       THEN trim(SubSeq(chars, 1, Len(chars) - 1))
  ELSE chars

\* Variant of IsValidTerm: the fields are compared with '' untrimmed.
IsValidTerm_NoTrim(term) ==
  /\ term.type = "object"
  /\ term.sourceTerm.type = "string"
  /\ term.targetTerm.type = "string"
  /\ term.sourceTerm.value # <<>>
  /\ term.targetTerm.value # <<>>

\* The predicate of allTerms.filter(...)
IsValidTerm(term) ==
  /\ term.type = "object"
  /\ term.sourceTerm.type = "string"
  /\ term.targetTerm.type = "string"
  /\ trim(term.sourceTerm.value) # <<>>
  /\ trim(term.targetTerm.value) # <<>>

FilterValid(terms) == SelectSeq(terms, IsValidTerm)

\* !v for a term field
Falsy(v) ==
  \/ v.type \in {"undefined", "null"}
  \/ v.type = "string" /\ v.value = <<>>

\* The Map uniqueTerms is the sequence of its entries in insertion order.
MapHas(m, key) == \E j \in DOMAIN m : m[j].key = key
MapGet(m, key) == m[CHOOSE j \in DOMAIN m : m[j].key = key].value
\* Variant of MapSet: an entry is added even when the key is present.
MapSet_AlwaysAppend(m, key, value) ==
  Append(m, [key |-> key, value |-> value])

\* Variant of MapSet: a key that is present is deleted and entered anew.
MapSet_MoveToEnd(m, key, value) ==
  Append(SelectSeq(m, LAMBDA e : e.key # key), [key |-> key, value |-> value])

MapSet(m, key, value) ==
  IF MapHas(m, key)
  THEN [j \in DOMAIN m |->
          IF m[j].key = key THEN [key |-> key, value |-> value] ELSE m[j]]
  ELSE Append(m, [key |-> key, value |-> value])

\* Variant of DedupVisit: the key is the sourceTerm as it is.
DedupVisit_CaseSensitive(m, term) ==
  IF Falsy(term.sourceTerm) \/ Falsy(term.targetTerm) THEN m
  ELSE LET key == term.sourceTerm.value
       IN IF \/ ~MapHas(m, key)
             \/ MapGet(m, key) = <<>>
             \/ Len(MapGet(m, key)) < Len(term.targetTerm.value)
          THEN MapSet(m, key, term.targetTerm.value)
          ELSE m

\* Variant of DedupVisit: a stored target is never replaced.
DedupVisit_FirstWins(m, term) ==
  IF Falsy(term.sourceTerm) \/ Falsy(term.targetTerm) THEN m
  ELSE LET key == toLowerCase(term.sourceTerm.value)
       IN IF ~MapHas(m, key) \/ MapGet(m, key) = <<>>
          THEN MapSet(m, key, term.targetTerm.value)
          ELSE m

\* Variant of DedupVisit: a target of equal length replaces the stored one.
DedupVisit_ReplaceOnTie(m, term) ==
  IF Falsy(term.sourceTerm) \/ Falsy(term.targetTerm) THEN m
  ELSE LET key == toLowerCase(term.sourceTerm.value)
       IN IF \/ ~MapHas(m, key)
             \/ MapGet(m, key) = <<>>
             \/ Len(MapGet(m, key)) <= Len(term.targetTerm.value)
          THEN MapSet(m, key, term.targetTerm.value)
          ELSE m

\* Body of terms.forEach(...) in deduplicateTerms
DedupVisit(m, term) ==
  IF Falsy(term.sourceTerm) \/ Falsy(term.targetTerm) THEN m
  ELSE LET key == toLowerCase(term.sourceTerm.value)
       IN IF \/ ~MapHas(m, key)
             \/ MapGet(m, key) = <<>>
             \/ Len(MapGet(m, key)) < Len(term.targetTerm.value)
          THEN MapSet(m, key, term.targetTerm.value)
          ELSE m

RECURSIVE DedupLoop(_, _, _)
DedupLoop(m, terms, k) ==
  IF k > Len(terms) THEN m
  ELSE DedupLoop(DedupVisit(m, terms[k]), terms, k + 1)

\* Variant of OriginalSource: the lowercased key is emitted.
OriginalSource_Lowercased(terms, sourceLower) == sourceLower

\* terms.find(t => t.sourceTerm?.toLowerCase() === sourceLower), then
\* originalTerm?.sourceTerm || sourceLower
OriginalSource(terms, sourceLower) ==
  LET hits == { k \in DOMAIN terms :
                  /\ terms[k].sourceTerm.type = "string"
                  /\ toLowerCase(terms[k].sourceTerm.value) = sourceLower }
  IN IF hits = {} THEN sourceLower
     ELSE LET first == CHOOSE k \in hits : \A h \in hits : k <= h
          IN IF terms[first].sourceTerm.value = <<>> THEN sourceLower
             ELSE terms[first].sourceTerm.value

deduplicateTerms(terms) ==
  LET m == DedupLoop(<<>>, terms, 1)
      kept == SelectSeq(m, LAMBDA e : e.key # <<>> /\ e.value # <<>>)
  IN [j \in DOMAIN kept |->
        Pair(Str(OriginalSource(terms, kept[j].key)), Str(kept[j].value))]

\* The filter and deduplication at the end of processTmxInChunks
Aggregate(rawTerms) == deduplicateTerms(FilterValid(rawTerms))

\* ----------------------------------------------------------------- progress
\* Pairs (processedUnits, totalUnits), totalUnits <= 260, for which the
\* double (processedUnits / totalUnits) * 100 falls just below the exact
\* quotient, so that Math.floor yields one less.
RoundedDown ==
  { <<29, 50>>, <<29, 100>>, <<57, 100>>, <<58, 100>>, <<87, 150>>,
    <<58, 200>>, <<114, 200>>, <<116, 200>>, <<145, 250>> }

\* Math.min(100, Math.floor((processedUnits / totalUnits) * 100))
ChunkProgress(processed, total) ==
  Min(100, IF <<processed, total>> \in RoundedDown
           THEN (processed * 100) \div total - 1
           ELSE (processed * 100) \div total)

\* Variant of ProcessedAfter: the count is set to the chunk's length.
ProcessedAfter_NotAccumulated(processed, chunk) == Len(chunk)

\* processedUnits += chunk.length
ProcessedAfter(processed, chunk) == processed + Len(chunk)

\* Variant of OverallProgress: the chunk progress is added unscaled.
OverallProgress_Unscaled(chunkProgress) == 20 + chunkProgress

\* 20 + Math.floor(chunkProgress * 0.7); in doubles 90 * 0.7 is below 63
OverallProgress(chunkProgress) ==
  20 + (IF chunkProgress = 90 THEN 62 ELSE (chunkProgress * 7) \div 10)

\* ------------------------------------------------------------------ parser
\* parseTmxFile rejects a file that is not well-formed TMX and a file
\* without translation units; otherwise it returns the TmxData.
parseTmxFile(file) ==
  IF ~file.wellFormed \/ Len(file.translationUnits) = 0
  THEN [ok |-> FALSE]
  ELSE [ok |-> TRUE, translationUnits |-> file.translationUnits]

\* Variant of InputError: a document without units is let through.
InputError_NoEmptyCheck(file) ==
  IF ~file.wellFormed THEN "Failed to parse TMX file" ELSE "none"

\* extractTerminology, steps "Parse TMX file" and "Verify we have
\* translation units": the error thrown to the outer catch, if any.
InputError(file) ==
  LET parsed == parseTmxFile(file)
  IN IF ~parsed.ok THEN "Failed to parse TMX file"
     ELSE IF Len(parsed.translationUnits) = 0
          THEN "No translation units found in TMX file"
          ELSE "none"

\* ------------------------------------------------------------ retry policy
\* Variant of RetriesRemain: one retry fewer.
RetriesRemain_Fewer(count) == count < maxRetries - 1

\* retryCount < maxRetries, tested after an empty result and after an error
RetriesRemain(count) == count < maxRetries

\* while (retryCount <= maxRetries)
LoopContinues(count) == count <= maxRetries

\* Variant of BackoffDelay: the delay of the count before the increment.
BackoffDelay_BeforeIncrement(count) == BackoffBaseMs * Pow2(count - 1)

\* 1000 * Math.pow(2, retryCount), evaluated after retryCount++
BackoffDelay(count) == BackoffBaseMs * Pow2(count)

\* ------------------------------------------------------------------- state
Variants == {"direct", "extractTerminology", "extractTerminologyApiTest"}

DatasetInfo == "dataset"

\* chunkTmxData = {...tmxData, translationUnits: chunk}
ChunkTmxData(chunk) ==
  [sourceLanguage |-> "en", targetLanguage |-> "es",
   translationUnits |-> chunk]

VARIABLES
  variant,            \* who runs processTmxInChunks: a direct caller, or
                      \* extractTerminology without / with the API test
  tmxFile,            \* the input document
  maxTokensPerChunk,
  opc,                \* position of extractTerminology
  onProgressLog,      \* values passed to onProgress, in order
  onCompleteLog,      \* lists passed to onComplete, in order
  onErrorLog,         \* messages passed to onError, in order
  apiTestCalls,       \* extraction calls made by the API connectivity test
  pc,                 \* position of processTmxInChunks
  unitIndex,          \* next unit of the chunking loop
  chunking,           \* chunks, currentChunk, currentChunkTokens
  chunks,             \* the chunk list, once built
  i,                  \* current chunk (1-based)
  prompt,             \* prompt of the current chunk
  chunkTerms,
  retryCount,
  waitMs,             \* duration of the pending backoff timer
  allTerms,
  processedUnits,
  failedChunks,
  onChunkProgressLog, \* values passed to onChunkProgress, in order
  result,             \* the list processTmxInChunks resolves with
  calls,              \* per chunk: extraction calls made
  contrib,            \* per finished chunk: the pairs it added to allTerms
  lastOutcome,        \* how the latest extraction call settled
  everReturned,       \* some extraction call of the chunk loop returned
  backoffWaits        \* backoff timers set so far

inputVars == <<variant, tmxFile, maxTokensPerChunk>>
orchVars == <<opc, onProgressLog, onCompleteLog, onErrorLog, apiTestCalls>>
chunkerVars == <<unitIndex, chunking, chunks>>
driverVars == <<i, prompt, chunkTerms, retryCount, waitMs, allTerms,
                processedUnits, failedChunks, onChunkProgressLog, result,
                calls, contrib, lastOutcome, everReturned, backoffWaits>>
vars == <<inputVars, orchVars, pc, chunkerVars, driverVars>>

NoPrompt == [datasetInfo |-> "", sourceLanguage |-> "", targetLanguage |-> "",
             translationSamples |-> <<>>]

\* The state before anything has run.
Idle ==
  /\ opc = IF variant = "direct" THEN "none" ELSE "idle"
  /\ onProgressLog = <<>>
  /\ onCompleteLog = <<>>
  /\ onErrorLog = <<>>
  /\ apiTestCalls = 0
  /\ pc = "notCalled"
  /\ unitIndex = 1
  /\ chunking = [chunks |-> <<>>, currentChunk |-> <<>>,
                 currentChunkTokens |-> 0]
  /\ chunks = <<>>
  /\ i = 0
  /\ prompt = NoPrompt
  /\ chunkTerms = <<>>
  /\ retryCount = 0
  /\ waitMs = 0
  /\ allTerms = <<>>
  /\ processedUnits = 0
  /\ failedChunks = 0
  /\ onChunkProgressLog = <<>>
  /\ result = <<>>
  /\ calls = <<>>
  /\ contrib = <<>>
  /\ lastOutcome = [kind |-> "none"]
  /\ everReturned = FALSE
  /\ backoffWaits = 0

Init ==
  /\ variant \in Variants
  /\ \E inp \in RunInputs, wf \in BOOLEAN :
       /\ variant = "direct" => wf
       /\ tmxFile = [wellFormed |-> wf, translationUnits |-> inp[1]]
       /\ maxTokensPerChunk = inp[2]
  /\ Idle

\* Aggregation runs: processTmxInChunks called directly on a document of
\* one or two chunks.
InitAgg ==
  /\ variant = "direct"
  /\ \E units \in AggDocs :
       tmxFile = [wellFormed |-> TRUE, translationUnits |-> units]
  /\ maxTokensPerChunk = 1
  /\ Idle

totalUnits == Len(tmxFile.translationUnits)

\* ------------------------------------------------------ processTmxInChunks
\* Entry of processTmxInChunks: locals initialised, chunking loop begins.
EnterProcess ==
  /\ pc' = "chunking"
  /\ UNCHANGED <<chunkerVars, driverVars>>

\* One iteration of the chunking loop.
ChunkUnit ==
  /\ pc = "chunking"
  /\ unitIndex <= totalUnits
  /\ chunking' = ChunkStep(chunking, tmxFile.translationUnits[unitIndex],
                           maxTokensPerChunk)
  /\ unitIndex' = unitIndex + 1
  /\ UNCHANGED <<inputVars, orchVars, pc, chunks, driverVars>>

\* Variant of InitialChunkTerms: the terms of the previous chunk are kept.
InitialChunkTerms_Carried(carried) == carried

\* let chunkTerms = [] at the start of the body of the per-chunk loop;
\* carried is the value chunkTerms had in the previous iteration.
InitialChunkTerms(carried) == <<>>

\* Variant of StartChunk: the first call of the following chunk is issued
\* together with the one of chunk n.
StartChunk_NextAlso(cs, n, carried) ==
  /\ i' = n
  /\ prompt' = generatePrompt(ChunkTmxData(cs[n]), DatasetInfo)
  /\ chunkTerms' = InitialChunkTerms(carried)
  /\ retryCount' = 0
  /\ calls' = [m \in DOMAIN cs |-> IF m = n \/ m = n + 1 THEN 1
                                  ELSE IF m < n THEN calls[m] ELSE 0]
  /\ pc' = "call"
  /\ UNCHANGED result

\* Start of the body of the per-chunk loop for chunk n of cs: the prompt is
\* generated and the first extraction call is issued.
StartChunk(cs, n, carried) ==
  /\ i' = n
  /\ prompt' = generatePrompt(ChunkTmxData(cs[n]), DatasetInfo)
  /\ chunkTerms' = InitialChunkTerms(carried)
  /\ retryCount' = 0
  /\ calls' = [m \in DOMAIN cs |-> IF m = n THEN 1
                                  ELSE IF m < n THEN calls[m] ELSE 0]
  /\ pc' = "call"
  /\ UNCHANGED result

\* After the per-chunk loop: filter, deduplicate, return.
ReturnResult(terms) ==
  /\ result' = Aggregate(terms)
  /\ pc' = "returned"
  /\ UNCHANGED <<prompt, chunkTerms, retryCount>>

\* The chunking loop has ended: final push, then the per-chunk loop begins.
ChunkingDone ==
  /\ pc = "chunking"
  /\ unitIndex > totalUnits
  /\ chunks' = FinalPush(chunking)
  /\ IF Len(chunks') > 0
     THEN StartChunk(chunks', 1, <<>>)
     ELSE /\ i' = 1
          /\ calls' = <<>>
          /\ ReturnResult(allTerms)
  /\ UNCHANGED <<inputVars, orchVars, unitIndex, chunking, waitMs, allTerms,
                 processedUnits, failedChunks, onChunkProgressLog, contrib,
                 lastOutcome, everReturned, backoffWaits>>

\* onChunkProgress as passed by the caller: extractTerminology maps the
\* value to the range 20..90 and passes it on to onProgress.
OnChunkProgress(progress) ==
  /\ onChunkProgressLog' = Append(onChunkProgressLog, progress)
  /\ onProgressLog' = IF variant = "direct" THEN onProgressLog
                      ELSE Append(onProgressLog, OverallProgress(progress))

\* Variant of Accumulate: the collection is replaced by the chunk's terms.
Accumulate_Overwrite(all, terms) == terms

\* allTerms = [...allTerms, ...chunkTerms]
Accumulate(all, terms) == all \o terms

\* The retry loop of chunk i has been left with chunkTerms = terms: the
\* terms are collected, progress is reported, and the run goes on with the
\* next chunk or, after the last one, returns.
FinishChunk(terms) ==
  /\ allTerms' = Accumulate(allTerms, terms)
  /\ contrib' = Append(contrib, terms)
  /\ processedUnits' = ProcessedAfter(processedUnits, chunks[i])
  /\ OnChunkProgress(ChunkProgress(processedUnits', totalUnits))
  /\ IF i < Len(chunks)
     THEN StartChunk(chunks, i + 1, terms)
     ELSE /\ i' = i + 1
          /\ UNCHANGED calls
          /\ result' = Aggregate(allTerms')
          /\ pc' = "returned"
          /\ UNCHANGED <<prompt, retryCount>>
          /\ chunkTerms' = terms
  /\ UNCHANGED <<waitMs, backoffWaits>>

\* retryCount++ and the backoff timer is set.
Retry ==
  /\ retryCount' = retryCount + 1
  /\ waitMs' = BackoffDelay(retryCount')
  /\ backoffWaits' = backoffWaits + 1
  /\ pc' = "backoff"
  /\ UNCHANGED <<i, prompt, allTerms, processedUnits, failedChunks,
                 onChunkProgressLog, onProgressLog, result, calls, contrib>>

\* The pending extraction call returns the list terms.
CallReturns(terms) ==
  /\ pc = "call"
  /\ lastOutcome' = [kind |-> "returned", terms |-> terms]
  /\ everReturned' = TRUE
  /\ IF Len(terms) > 0
     THEN FinishChunk(terms) /\ UNCHANGED failedChunks
     ELSE IF RetriesRemain(retryCount)
     THEN Retry /\ chunkTerms' = terms
     ELSE FinishChunk(terms) /\ failedChunks' = failedChunks + 1
  /\ UNCHANGED <<inputVars, opc, onCompleteLog, onErrorLog, apiTestCalls,
                 chunkerVars>>

\* The pending extraction call throws.
CallThrows ==
  /\ pc = "call"
  /\ lastOutcome' = [kind |-> "threw"]
  /\ IF RetriesRemain(retryCount)
     THEN Retry /\ UNCHANGED chunkTerms
     ELSE FinishChunk(chunkTerms) /\ failedChunks' = failedChunks + 1
  /\ UNCHANGED <<inputVars, opc, onCompleteLog, onErrorLog, apiTestCalls,
                 chunkerVars, everReturned>>

\* The backoff timer fires: the while condition is evaluated and the loop
\* issues the next extraction call.
BackoffElapses ==
  /\ pc = "backoff"
  /\ IF LoopContinues(retryCount)
     THEN /\ pc' = "call"
          /\ calls' = [calls EXCEPT ![i] = @ + 1]
          /\ UNCHANGED <<onProgressLog, i, prompt, chunkTerms, retryCount,
                         waitMs, allTerms, processedUnits,
                         onChunkProgressLog, result, contrib, backoffWaits>>
     ELSE FinishChunk(chunkTerms)
  /\ UNCHANGED <<inputVars, opc, onCompleteLog, onErrorLog, apiTestCalls,
                 chunkerVars, failedChunks, lastOutcome, everReturned>>

\* A caller other than extractTerminology invokes processTmxInChunks.
DirectCall ==
  /\ variant = "direct"
  /\ pc = "notCalled"
  /\ EnterProcess
  /\ UNCHANGED <<inputVars, orchVars>>

\* ------------------------------------------------------ extractTerminology
\* useEffect runs extractTerminology: onProgress(10), parseTmxFile starts.
ExtractStart ==
  /\ opc = "idle"
  /\ onProgressLog' = Append(onProgressLog, 10)
  /\ opc' = "parsing"
  /\ UNCHANGED <<inputVars, onCompleteLog, onErrorLog, apiTestCalls, pc,
                 chunkerVars, driverVars>>

\* Variant of componentAllTerms: terms have been stored in the state.
componentAllTerms_Populated == ResultA

\* The component state allTerms: useState([]), and setAllTerms is never
\* called.
componentAllTerms == <<>>

\* The outer catch: onError(message), then onComplete(allTerms) if the
\* component state allTerms holds partial results.
Fail(message) ==
  /\ onErrorLog' = Append(onErrorLog, message)
  /\ opc' = "errored"
  /\ onCompleteLog' = IF Len(componentAllTerms) > 0
                      THEN Append(onCompleteLog, componentAllTerms)
                      ELSE onCompleteLog

\* parseTmxFile settles; the units are verified; the next step starts.
ParseSettles ==
  /\ opc = "parsing"
  /\ IF InputError(tmxFile) # "none"
     THEN /\ Fail(InputError(tmxFile))
          /\ UNCHANGED <<onProgressLog, apiTestCalls, pc, chunkerVars,
                         driverVars>>
     ELSE IF variant = "extractTerminologyApiTest"
     THEN /\ onProgressLog' = Append(onProgressLog, 15)
          /\ apiTestCalls' = apiTestCalls + 1
          /\ opc' = "apiTest"
          /\ UNCHANGED <<onCompleteLog, onErrorLog, pc, chunkerVars,
                         driverVars>>
     ELSE /\ onProgressLog' = Append(onProgressLog, 20)
          /\ opc' = "processing"
          /\ EnterProcess
          /\ UNCHANGED <<onCompleteLog, onErrorLog, apiTestCalls>>
  /\ UNCHANGED inputVars

\* The test call of the API connectivity test returns (with or without
\* results): onProgress(20) and processTmxInChunks is invoked.
ApiTestReturns ==
  /\ opc = "apiTest"
  /\ onProgressLog' = Append(onProgressLog, 20)
  /\ opc' = "processing"
  /\ EnterProcess
  /\ UNCHANGED <<inputVars, onCompleteLog, onErrorLog, apiTestCalls>>

\* The API connectivity test throws: "API connectivity test failed".
ApiTestThrows ==
  /\ opc = "apiTest"
  /\ Fail("API connectivity test failed")
  /\ UNCHANGED <<inputVars, onProgressLog, apiTestCalls, pc, chunkerVars,
                 driverVars>>

\* processTmxInChunks has resolved: onProgress(90), onComplete, onProgress(100)
ProcessResolves ==
  /\ opc = "processing"
  /\ pc = "returned"
  /\ onProgressLog' = onProgressLog \o <<90, 100>>
  /\ onCompleteLog' = Append(onCompleteLog, result)
  /\ opc' = "completed"
  /\ UNCHANGED <<inputVars, onErrorLog, apiTestCalls, pc, chunkerVars,
                 driverVars>>

Next ==
  \/ DirectCall
  \/ ExtractStart
  \/ ParseSettles
  \/ ApiTestReturns
  \/ ApiTestThrows
  \/ ChunkUnit
  \/ ChunkingDone
  \/ \E terms \in ApiResults \cup {<<>>} : CallReturns(terms)
  \/ CallThrows
  \/ BackoffElapses
  \/ ProcessResolves

Spec == Init /\ [][Next]_vars

\* The pending extraction call settles.
CallSettles ==
  \/ \E terms \in ApiResults \cup {<<>>} : CallReturns(terms)
  \/ CallThrows

\* The event loop runs the synchronous code of processTmxInChunks, every
\* extraction call settles and every backoff timer fires.
Fairness ==
  WF_vars(ChunkUnit \/ ChunkingDone \/ CallSettles \/ BackoffElapses)

\* Runs of processTmxInChunks called directly on a small document.
InitDirect ==
  /\ variant = "direct"
  /\ \E units \in SeqsUpTo(UnitPool, MaxLiveUnits), budget \in SmallBudgets :
       /\ tmxFile = [wellFormed |-> TRUE, translationUnits |-> units]
       /\ maxTokensPerChunk = budget
  /\ Idle

NextDirect ==
  \/ DirectCall
  \/ ChunkUnit
  \/ ChunkingDone
  \/ CallSettles
  \/ BackoffElapses

FairSpec == InitDirect /\ [][NextDirect]_vars /\ Fairness

\* Aggregation runs: every extraction call returns a non-empty list of raw
\* entries, valid or not.
NextAgg ==
  \/ DirectCall
  \/ ChunkUnit
  \/ ChunkingDone
  \/ \E terms \in RawLists : CallReturns(terms)

SpecAgg == InitAgg /\ [][NextAgg]_vars

\* ------------------------------------------------------------ properties
RECURSIVE Flatten(_)
Flatten(seqs) ==
  IF seqs = <<>> THEN <<>> ELSE Head(seqs) \o Flatten(Tail(seqs))

RECURSIVE TokensOf(_, _, _)
TokensOf(chunk, lo, hi) ==
  IF lo > hi THEN 0
  ELSE IF lo = hi THEN unitTokens(chunk[lo])
  ELSE TokensOf(chunk, lo, (lo + hi) \div 2)
       + TokensOf(chunk, (lo + hi) \div 2 + 1, hi)

ChunkTokens(chunk) == TokensOf(chunk, 1, Len(chunk))

ChunksBuilt == pc \in {"call", "backoff", "returned"}

\* The latest extraction call threw or returned zero pairs.
SettledEmpty(outcome) ==
  \/ outcome.kind = "threw"
  \/ outcome.kind = "returned" /\ Len(outcome.terms) = 0

SettledWithPairs(outcome) ==
  outcome.kind = "returned" /\ Len(outcome.terms) > 0

\* C1: the chunks built by processTmxInChunks, concatenated in order, are
\* the original unit sequence, and no chunk is empty.
C1_ChunksPreserveUnits ==
  ChunksBuilt =>
    /\ Flatten(chunks) = tmxFile.translationUnits
    /\ \A n \in DOMAIN chunks : Len(chunks[n]) > 0

C1_Witness ==
  /\ ChunksBuilt
  /\ Len(chunks) >= 2
  /\ \E n \in DOMAIN chunks : Len(chunks[n]) >= 2

\* C2: the estimated token total of every chunk is at most
\* maxTokensPerChunk, unless the chunk is a single unit that alone costs
\* more than maxTokensPerChunk.
C2_ChunksWithinBudget ==
  ChunksBuilt =>
    \A n \in DOMAIN chunks :
      \/ ChunkTokens(chunks[n]) <= maxTokensPerChunk
      \/ /\ Len(chunks[n]) = 1
         /\ unitTokens(chunks[n][1]) > maxTokensPerChunk

C2_Witness ==
  /\ ChunksBuilt
  /\ \E n \in DOMAIN chunks :
       Len(chunks[n]) = 1 /\ unitTokens(chunks[n][1]) > maxTokensPerChunk
  /\ \E n \in DOMAIN chunks :
       Len(chunks[n]) >= 2 /\ ChunkTokens(chunks[n]) = maxTokensPerChunk

\* C3: the prompt of every extraction request of a chunk is built from all
\* of that chunk's translation units.
C3_PromptCoversChunk ==
  pc \in {"call", "backoff"} => prompt.translationSamples = chunks[i]

\* C4: for every chunk the extraction call is invoked at least once and at
\* most 3 times.
C4_AttemptsBounded ==
  ChunksBuilt =>
    \A n \in DOMAIN calls :
      /\ calls[n] <= 3
      /\ n <= i => calls[n] >= 1

C4_Witness ==
  /\ pc = "returned"
  /\ \E n \in DOMAIN calls : calls[n] = 3
  /\ \E n \in DOMAIN calls : calls[n] = 1

\* C5: within a chunk a further attempt follows exactly when the previous
\* attempt threw or returned zero pairs and fewer than 2 retries have been
\* used; an attempt that returns at least one pair ends the chunk at once
\* and exactly its pairs are the chunk's contribution.
C5_RetryExactlyOnEmptyOrError ==
  [][ /\ pc = "call" =>
         /\ (pc' = "backoff" /\ i' = i)
              <=> (SettledEmpty(lastOutcome') /\ retryCount < 2)
         /\ SettledWithPairs(lastOutcome') =>
              /\ contrib' = Append(contrib, lastOutcome'.terms)
              /\ calls'[i] = calls[i]
              /\ i' = i + 1
      /\ pc = "backoff" =>
         /\ pc' = "call"
         /\ i' = i
         /\ calls' = [calls EXCEPT ![i] = calls[i] + 1] ]_vars

C5_Witness ==
  \E n \in DOMAIN contrib :
    /\ calls[n] = 2
    /\ contrib[n] # <<>>
    /\ contrib[n] = lastOutcome.terms

\* C6 as stated: the wait is about 1000 ms before the first retry of a
\* chunk and about 2000 ms before the second.
C6_WaitsOneThenTwoSeconds ==
  pc = "backoff" => waitMs = (IF calls[i] = 1 THEN 1000 ELSE 2000)

\* C6 amended: the wait is 1000 ms * 2^retryCount with retryCount already
\* incremented, 2000 ms before the first retry of a chunk and 4000 ms before
\* the second, after an empty result and after a thrown error alike.
C6_WaitsTwoThenFourSeconds ==
  pc = "backoff" =>
    /\ waitMs = 1000 * Pow2(retryCount)
    /\ waitMs = (IF calls[i] = 1 THEN 2000 ELSE 4000)
    /\ retryCount = calls[i]

C6_Witness ==
  /\ pc = "backoff"
  /\ calls[i] = 2
  /\ lastOutcome.kind = "threw"
  /\ everReturned

\* C7: a chunk whose third attempt throws or returns zero pairs adds no
\* pairs to the accumulated raw list, whatever the earlier attempts were;
\* the run goes on with the next chunk (or returns after the last one) and
\* the pairs contributed by the other chunks stay as they are.
C7_FailedChunkContributesNothing ==
  [][ (pc = "call" /\ calls[i] = 3 /\ SettledEmpty(lastOutcome')) =>
        /\ allTerms' = allTerms
        /\ contrib' = Append(contrib, <<>>)
        /\ failedChunks' = failedChunks + 1
        /\ IF i < Len(chunks)
           THEN pc' = "call" /\ i' = i + 1 /\ calls'[i + 1] = 1
           ELSE pc' = "returned" /\ result' = Aggregate(allTerms) ]_vars

\* the accumulated raw list is the concatenation of the contributions
C7_Witness ==
  /\ pc = "returned"
  /\ allTerms = Flatten(contrib)
  /\ \E n, m \in DOMAIN contrib :
       /\ n < m
       /\ contrib[n] # <<>>
       /\ calls[m] = 3
       /\ contrib[m] = <<>>

\* C8: if every extraction call throws, each chunk is attempted exactly 3
\* times and marked failed, and processTmxInChunks resolves with an empty
\* list.
C8_AllThrowGivesEmptyList ==
  /\ (ChunksBuilt /\ ~everReturned) =>
       /\ allTerms = <<>>
       /\ \A n \in DOMAIN calls : n < i => calls[n] = 3
       /\ failedChunks = i - 1
  /\ (pc = "returned" /\ ~everReturned) =>
       /\ \A n \in DOMAIN chunks : calls[n] = 3
       /\ failedChunks = Len(chunks)
       /\ result = <<>>

C8_Witness ==
  /\ pc = "returned"
  /\ ~everReturned
  /\ Len(chunks) >= 2
  /\ lastOutcome.kind = "threw"

\* C9: extractTerminology calls onError only for input-level errors (a
\* document that cannot be parsed or has no translation units); a failing
\* extraction call never causes onError.
C9_OnErrorOnlyForInputErrors ==
  Len(onErrorLog) > 0 =>
    \/ ~tmxFile.wellFormed
    \/ Len(tmxFile.translationUnits) = 0

\* C10: for a document with zero translation units extractTerminology
\* raises an input error before any chunk is created, before any
\* extraction call and before any chunk progress is reported.
C10_EmptyDocumentFailsFirst ==
  (variant # "direct" /\ Len(tmxFile.translationUnits) = 0) =>
    /\ pc = "notCalled"
    /\ chunks = <<>> /\ chunking.chunks = <<>>
    /\ calls = <<>> /\ apiTestCalls = 0
    /\ onChunkProgressLog = <<>>
    /\ opc \in {"idle", "parsing", "errored"}
    /\ opc = "errored" => Len(onErrorLog) = 1 /\ onCompleteLog = <<>>

C10_Witness ==
  /\ variant # "direct"
  /\ tmxFile.wellFormed
  /\ Len(tmxFile.translationUnits) = 0
  /\ opc = "errored"

NonDecreasing(log) ==
  \A a, b \in DOMAIN log : a <= b => log[a] <= log[b]

\* C11: the values passed to onChunkProgress during a run are integers in
\* 0..100 and never decrease, whether the chunks succeed, come back empty
\* or fail.
C11_ChunkProgressMonotone ==
  /\ \A k \in DOMAIN onChunkProgressLog : onChunkProgressLog[k] \in 0..100
  /\ NonDecreasing(onChunkProgressLog)

C11_Witness ==
  /\ pc = "returned"
  /\ Len(onChunkProgressLog) >= 3
  /\ onChunkProgressLog[1] < onChunkProgressLog[2]
  /\ failedChunks >= 1
  /\ failedChunks < Len(chunks)

\* C12: once all chunks have been attempted, failed ones included, the
\* last value reported through onChunkProgress is exactly 100, and 100 is
\* not reported before the last chunk has finished its attempts.
C12_HundredExactlyAtTheEnd ==
  /\ \A k \in DOMAIN onChunkProgressLog :
       onChunkProgressLog[k] = 100 => (ChunksBuilt /\ k = Len(chunks))
  /\ pc \in {"call", "backoff"} => Len(onChunkProgressLog) = i - 1
  /\ pc = "returned" =>
       /\ Len(onChunkProgressLog) = Len(chunks)
       /\ Len(chunks) > 0 =>
            onChunkProgressLog[Len(onChunkProgressLog)] = 100

C12_Witness ==
  /\ pc = "returned"
  /\ Len(chunks) >= 2
  /\ contrib[Len(chunks)] = <<>>
  /\ calls[Len(chunks)] = 3
  /\ onChunkProgressLog[Len(chunks)] = 100

\* C13: the values extractTerminology passes to onProgress over a run lie
\* in 0..100, never decrease, and end with 100 on a completed run.
C13_OverallProgressMonotone ==
  /\ \A k \in DOMAIN onProgressLog : onProgressLog[k] \in 0..100
  /\ NonDecreasing(onProgressLog)
  /\ opc = "completed" => onProgressLog[Len(onProgressLog)] = 100

C13_Witness ==
  /\ opc = "completed"
  /\ Len(chunks) >= 2
  /\ \E k \in DOMAIN onProgressLog :
       onProgressLog[k] > 20 /\ onProgressLog[k] < 90

\* ---------------------------------------------- properties of aggregation
\* An entry that is a well-formed pair: an object whose sourceTerm and
\* targetTerm are text and not empty after trimming.
WellFormedPair(e) ==
  /\ e.type = "object"
  /\ e.sourceTerm.type = "string"
  /\ e.targetTerm.type = "string"
  /\ trim(e.sourceTerm.value) # <<>>
  /\ trim(e.targetTerm.value) # <<>>

\* The valid raw pairs of the run, in the order they were accumulated.
ValidRaw == SelectSeq(allTerms, WellFormedPair)

\* The group key of a pair: its lowercased sourceTerm.
KeyOf(e) == toLowerCase(e.sourceTerm.value)

\* Positions in a list of pairs of the group with the given key.
GroupOf(pairs, key) == { k \in DOMAIN pairs : KeyOf(pairs[k]) = key }

Least(S) == CHOOSE k \in S : \A h \in S : k <= h

\* Positions of the list whose sourceTerm is text with the given lowercased
\* form, whether the entry is valid or not.
RawGroupOf(key) ==
  { k \in DOMAIN allTerms :
      /\ allTerms[k].type = "object"
      /\ allTerms[k].sourceTerm.type = "string"
      /\ toLowerCase(allTerms[k].sourceTerm.value) = key }

TrimmedText(v) ==
  /\ v.type = "string"
  /\ v.value # <<>>
  /\ trim(v.value) = v.value

\* C14: the returned list never holds two pairs whose sourceTerms are
\* equal when lowercased.
C14_NoCaseInsensitiveDuplicates ==
  pc = "returned" =>
    \A a, b \in DOMAIN result :
      a # b => KeyOf(result[a]) # KeyOf(result[b])

C14_Witness ==
  /\ pc = "returned"
  /\ Len(result) >= 2
  /\ \E k, l \in DOMAIN ValidRaw :
       /\ KeyOf(ValidRaw[k]) = KeyOf(ValidRaw[l])
       /\ ValidRaw[k].sourceTerm # ValidRaw[l].sourceTerm

\* C15: every returned pair has a sourceTerm and a targetTerm that are
\* non-empty text without leading or trailing whitespace.
C15_ReturnedTermsAreTrimmed ==
  pc = "returned" =>
    \A a \in DOMAIN result :
      /\ TrimmedText(result[a].sourceTerm)
      /\ TrimmedText(result[a].targetTerm)

\* C16: entries that are not well-formed pairs are dropped without an
\* error and without influence: the returned list is the one produced from
\* the raw list with those entries removed.
C16_InvalidEntriesHaveNoInfluence ==
  pc = "returned" => result = Aggregate(ValidRaw)

C16_Witness ==
  /\ pc = "returned"
  /\ result # <<>>
  /\ \E k \in DOMAIN allTerms : allTerms[k] = Null
  /\ \E k \in DOMAIN allTerms :
       allTerms[k].type = "object" /\ ~WellFormedPair(allTerms[k])

\* C17: for every group of valid pairs with the same lowercased sourceTerm
\* the emitted targetTerm is a targetTerm of the group and none of the
\* group is longer, in whatever order the pairs arrived.
C17_LongestTargetWins ==
  pc = "returned" =>
    /\ \A k \in DOMAIN ValidRaw :
         \E a \in DOMAIN result :
           /\ KeyOf(result[a]) = KeyOf(ValidRaw[k])
           /\ Len(result[a].targetTerm.value)
                >= Len(ValidRaw[k].targetTerm.value)
    /\ \A a \in DOMAIN result :
         \E k \in GroupOf(ValidRaw, KeyOf(result[a])) :
           ValidRaw[k].targetTerm = result[a].targetTerm

C17_Witness ==
  /\ pc = "returned"
  /\ Len(chunks) = 2
  /\ \E k, l \in DOMAIN ValidRaw :
       /\ k < l
       /\ KeyOf(ValidRaw[k]) = KeyOf(ValidRaw[l])
       /\ Len(ValidRaw[k].targetTerm.value)
            > Len(ValidRaw[l].targetTerm.value)
  /\ \E k, l \in DOMAIN ValidRaw :
       /\ k < l
       /\ KeyOf(ValidRaw[k]) = KeyOf(ValidRaw[l])
       /\ Len(ValidRaw[k].targetTerm.value)
            < Len(ValidRaw[l].targetTerm.value)

\* Positions of the group whose targetTerm has the greatest length.
Longest(pairs, grp) ==
  { k \in grp : \A h \in grp : Len(pairs[h].targetTerm.value)
                                 <= Len(pairs[k].targetTerm.value) }

\* C18: when several targetTerms of a group share the greatest length, the
\* emitted one is the first of them in the raw list.
C18_FirstOfTheLongestWins ==
  pc = "returned" =>
    \A a \in DOMAIN result :
      LET grp == GroupOf(ValidRaw, KeyOf(result[a]))
      IN /\ grp # {}
         /\ result[a].targetTerm
              = ValidRaw[Least(Longest(ValidRaw, grp))].targetTerm

C18_Witness ==
  /\ pc = "returned"
  /\ \E k, l \in DOMAIN ValidRaw :
       /\ k < l
       /\ KeyOf(ValidRaw[k]) = KeyOf(ValidRaw[l])
       /\ ValidRaw[k].targetTerm # ValidRaw[l].targetTerm
       /\ {k, l} \subseteq
            Longest(ValidRaw, GroupOf(ValidRaw, KeyOf(ValidRaw[k])))

\* C19 as stated: the emitted sourceTerm is the sourceTerm of the first raw
\* entry whose lowercased sourceTerm is the group key, also when that entry
\* is rejected by the validation.
C19_CasingOfFirstRawEntry ==
  pc = "returned" =>
    \A a \in DOMAIN result :
      LET grp == RawGroupOf(KeyOf(result[a]))
      IN /\ grp # {}
         /\ result[a].sourceTerm = allTerms[Least(grp)].sourceTerm

\* C19 amended: the emitted sourceTerm is the sourceTerm of the first raw
\* entry that passes the validation and whose lowercased sourceTerm is the
\* group key; a rejected entry never supplies the casing.
C19_CasingOfFirstValidEntry ==
  pc = "returned" =>
    \A a \in DOMAIN result :
      LET grp == GroupOf(ValidRaw, KeyOf(result[a]))
      IN /\ grp # {}
         /\ result[a].sourceTerm = ValidRaw[Least(grp)].sourceTerm

C19_Witness ==
  /\ pc = "returned"
  /\ \E a \in DOMAIN result :
       LET grp == RawGroupOf(KeyOf(result[a]))
       IN /\ grp # {}
          /\ ~WellFormedPair(allTerms[Least(grp)])
          /\ allTerms[Least(grp)].sourceTerm # result[a].sourceTerm
          /\ result[a].sourceTerm.value # KeyOf(result[a])

\* C20: aggregation is idempotent: the validation filter and
\* deduplicateTerms applied to the returned list give the same list.
C20_AggregationIdempotent ==
  pc = "returned" => Aggregate(result) = result

C20_Witness ==
  /\ pc = "returned"
  /\ Len(result) >= 2
  /\ Len(ValidRaw) > Len(result)
  /\ \E a \in DOMAIN result : result[a].sourceTerm.value # KeyOf(result[a])

\* ------------------------------------------- properties of the whole run
\* Extraction calls started so far for chunk n.
Started(c, n) == IF n \in DOMAIN c THEN c[n] ELSE 0

\* Extraction calls awaiting their result: the call of the chunk loop and
\* the call of the API connectivity test.
InFlight ==
  (IF pc = "call" THEN 1 ELSE 0) + (IF opc = "apiTest" THEN 1 ELSE 0)

\* C21: at most one extraction call is in flight at any time and the
\* chunks are processed strictly in order: the first attempt of chunk n + 1
\* starts only when the last attempt of chunk n has settled and the
\* progress of chunk n has been reported, and a backoff wait ends, with
\* nothing else happening before, by the next attempt of the same chunk.
C21_OneCallAtATimeInChunkOrder ==
  [][ /\ InFlight <= 1 /\ InFlight' <= 1
      /\ \A n \in DOMAIN calls' :
           Started(calls', n) # Started(calls, n) =>
             /\ Started(calls', n) = Started(calls, n) + 1
             /\ \A m \in DOMAIN calls' \ {n} :
                  Started(calls', m) = Started(calls, m)
             /\ \A m \in DOMAIN calls' : m > n => calls'[m] = 0
             /\ pc' = "call" /\ i' = n
             /\ Len(onChunkProgressLog') = n - 1
             /\ Len(contrib') = n - 1
             /\ calls'[n] = 1 =>
                  \/ n = 1 /\ pc = "chunking"
                  \/ /\ n > 1 /\ pc = "call" /\ i = n - 1
                     /\ ~(SettledEmpty(lastOutcome') /\ retryCount < 2)
                     /\ Len(onChunkProgressLog) = n - 2
             /\ calls'[n] > 1 => pc = "backoff" /\ i = n
      /\ pc = "backoff" =>
           /\ pc' = "call" /\ i' = i
           /\ Started(calls', i) = Started(calls, i) + 1
           /\ onChunkProgressLog' = onChunkProgressLog ]_vars

C21_Witness ==
  /\ pc = "call"
  /\ i = 2
  /\ calls[1] = 3
  /\ calls[2] = 2
  /\ Len(chunks) = 3
  /\ calls[3] = 0
  /\ Len(onChunkProgressLog) = 1

\* The valid raw pairs contributed by the chunks, in chunk order and, within
\* a chunk, in the order of the extraction result.
ContributedValid == SelectSeq(Flatten(contrib), WellFormedPair)

KeysOf(pairs) == { KeyOf(pairs[k]) : k \in DOMAIN pairs }

\* C22: aggregation loses no term: the number of returned pairs is the
\* number of distinct lowercased sourceTerms among the valid raw pairs the
\* chunks contributed, and each of these terms is returned exactly once.
C22_NoTermLost ==
  pc = "returned" =>
    /\ Len(result) = Cardinality(KeysOf(ContributedValid))
    /\ \A key \in KeysOf(ContributedValid) :
         Cardinality({ a \in DOMAIN result : KeyOf(result[a]) = key }) = 1

C22_Witness ==
  /\ pc = "returned"
  /\ Len(contrib) = 2
  /\ Len(ContributedValid) = 4
  /\ Len(result) = 2
  /\ KeysOf(SelectSeq(contrib[1], WellFormedPair))
       # KeysOf(SelectSeq(contrib[2], WellFormedPair))

\* Units of the first k chunks.
RECURSIVE UnitsUpTo(_)
UnitsUpTo(k) == IF k = 0 THEN 0 ELSE UnitsUpTo(k - 1) + Len(chunks[k])

\* Chunks whose retry loop has been left.
ChunksFinished == IF pc = "returned" THEN Len(chunks) ELSE i - 1

\* C23: progress is reported exactly once per chunk, after the chunk's last
\* attempt and whether the chunk succeeded or failed, and the value is
\* floor(processed / total * 100), processed being the number of units of
\* all chunks finished so far, failed chunks included.
C23_ProgressOncePerChunk ==
  ChunksBuilt =>
    /\ Len(onChunkProgressLog) = ChunksFinished
    /\ \A k \in DOMAIN onChunkProgressLog :
         onChunkProgressLog[k] = (UnitsUpTo(k) * 100) \div totalUnits

\* C24: chunking is greedy: for every two consecutive chunks the estimated
\* token total of the earlier one plus the cost of the first unit of the
\* later one exceeds maxTokensPerChunk; units of cost 10 under a budget of
\* 1000 tokens are cut into chunks of 100 units, so 250 of them give the
\* chunks of 100, 100 and 50 units.
C24_ChunkingIsGreedy ==
  ChunksBuilt =>
    /\ \A n \in DOMAIN chunks :
         n < Len(chunks) =>
           ChunkTokens(chunks[n]) + unitTokens(chunks[n + 1][1])
             > maxTokensPerChunk
    /\ (tmxFile.translationUnits \in LargeDocs /\ maxTokensPerChunk = 1000) =>
         [n \in DOMAIN chunks |-> Len(chunks[n])]
           = <<100, 100, totalUnits - 200>>

C24_Witness ==
  /\ ChunksBuilt
  /\ Len(chunks) >= 2
  /\ Len(chunks[1]) >= 2
  /\ ChunkTokens(chunks[1]) < maxTokensPerChunk
  /\ ChunkTokens(chunks[2]) <= maxTokensPerChunk

RECURSIVE SumUpTo(_, _)
SumUpTo(c, k) == IF k = 0 THEN 0 ELSE SumUpTo(c, k - 1) + c[k]

\* Extraction calls made by the chunk loop so far.
TotalCalls == SumUpTo(calls, Len(calls))

\* C25: when every extraction call settles and every backoff timer fires,
\* a run of processTmxInChunks ends by returning a list, and it makes at
\* most 3 extraction calls and at most 2 backoff waits per chunk.
C25_TerminatesWithinBounds ==
  /\ (pc = "chunking")
       ~> (/\ pc = "returned"
           /\ DOMAIN result = 1..Len(result)
           /\ \A a \in DOMAIN result : WellFormedPair(result[a]))
  /\ [](ChunksBuilt =>
          /\ TotalCalls <= 3 * Len(chunks)
          /\ backoffWaits <= 2 * Len(chunks))

C25_Witness ==
  /\ pc = "returned"
  /\ Len(chunks) >= 2
  /\ TotalCalls = 3 * Len(chunks)
  /\ backoffWaits = 2 * Len(chunks)

\* C26: processTmxInChunks never changes its input: the document's
\* translationUnits stay as they were, and every chunk keeps its units and
\* their order from the moment it is created to the end of the run, across
\* all retries.
C26_InputNeverMutated ==
  [][ /\ tmxFile' = tmxFile
      /\ \A n \in DOMAIN chunking.chunks :
           /\ n \in DOMAIN chunking'.chunks
           /\ chunking'.chunks[n] = chunking.chunks[n]
      /\ chunks' # chunks =>
           /\ pc = "chunking"
           /\ \A n \in DOMAIN chunking.chunks :
                n \in DOMAIN chunks' /\ chunks'[n] = chunking.chunks[n]
      /\ ChunksBuilt => chunks' = chunks ]_vars

C26_Witness ==
  /\ pc = "returned"
  /\ Len(chunks) >= 2
  /\ calls[1] = 3
  /\ calls[2] = 2
  /\ Len(chunks[1]) >= 2
  /\ chunking.chunks = SubSeq(chunks, 1, Len(chunks) - 1)

\* C27: called directly with an empty translationUnits list,
\* processTmxInChunks creates no chunk, makes no extraction call, never
\* invokes onChunkProgress (so no 100 is reported) and resolves with an
\* empty list; no input error is raised.
C27_EmptyDirectCallResolvesEmpty ==
  (variant = "direct" /\ totalUnits = 0) =>
    /\ chunking.chunks = <<>> /\ chunks = <<>>
    /\ calls = <<>> /\ apiTestCalls = 0
    /\ onChunkProgressLog = <<>>
    /\ onErrorLog = <<>>
    /\ pc \in {"notCalled", "chunking", "returned"}
    /\ pc = "returned" => result = <<>>

C27_Witness ==
  /\ variant = "direct"
  /\ totalUnits = 0
  /\ pc = "returned"
  /\ result = <<>>
  /\ onChunkProgressLog = <<>>

\* Position in the valid contributed pairs of the first pair of the group
\* of a returned pair.
FirstOccurrence(pair) == Least(GroupOf(ContributedValid, KeyOf(pair)))

\* C28: the returned pairs are in the order in which their lowercased
\* sourceTerms first occur in the accumulated valid raw list (chunk order,
\* then order within a chunk), so the output order is fixed by the sequence
\* of extraction results.
C28_OrderedByFirstOccurrence ==
  pc = "returned" =>
    /\ \A a \in DOMAIN result :
         GroupOf(ContributedValid, KeyOf(result[a])) # {}
    /\ \A a, b \in DOMAIN result :
         a < b => FirstOccurrence(result[a]) < FirstOccurrence(result[b])
    /\ result = Aggregate(Flatten(contrib))

\* the target of the first returned pair was replaced after the group of
\* the second returned pair had been entered
C28_Witness ==
  /\ pc = "returned"
  /\ Len(contrib) = 2
  /\ Len(result) >= 2
  /\ \E k \in GroupOf(ContributedValid, KeyOf(result[1])) :
       /\ k > FirstOccurrence(result[2])
       /\ k > Len(SelectSeq(contrib[1], WellFormedPair))
       /\ ContributedValid[k].targetTerm = result[1].targetTerm
       /\ ContributedValid[FirstOccurrence(result[1])].targetTerm
            # result[1].targetTerm

\* C29: every returned pair has the sourceTerm of the first valid raw pair
\* of its group (the pairs with the same lowercased sourceTerm) and the
\* targetTerm of a valid raw pair of that group; the returned pair itself
\* need not be one of the raw pairs.
C29_FieldsComeFromTheGroup ==
  pc = "returned" =>
    \A a \in DOMAIN result :
      LET grp == GroupOf(ContributedValid, KeyOf(result[a]))
      IN /\ grp # {}
         /\ result[a].sourceTerm = ContributedValid[Least(grp)].sourceTerm
         /\ \E k \in grp :
              ContributedValid[k].targetTerm = result[a].targetTerm

\* a returned pair that is none of the raw pairs
C29_Witness ==
  /\ pc = "returned"
  /\ \E a \in DOMAIN result :
       /\ \A k \in DOMAIN allTerms : allTerms[k] # result[a]
       /\ result[a].sourceTerm.value # KeyOf(result[a])

Outcomes(completeLog, errorLog) == Len(completeLog) + Len(errorLog)

\* C30: a run of extractTerminology invokes exactly one of onComplete and
\* onError, exactly once: onComplete with the result, followed by
\* onProgress(100), when processTmxInChunks has resolved, onError when the
\* run fails before; after onError no onComplete follows.
C30_ExactlyOneOutcomeCallback ==
  [][ /\ Outcomes(onCompleteLog', onErrorLog')
           = (IF opc' \in {"completed", "errored"} THEN 1 ELSE 0)
      /\ onCompleteLog' # onCompleteLog =>
           /\ opc = "processing" /\ pc = "returned"
           /\ onCompleteLog' = <<result>>
           /\ onProgressLog' = onProgressLog \o <<90, 100>>
      /\ onErrorLog' # onErrorLog =>
           /\ pc = "notCalled"
           /\ Len(onErrorLog') = 1
      /\ (opc = "processing" /\ pc = "returned") =>
           opc' = "completed" /\ Len(onCompleteLog') = 1
      /\ Len(onErrorLog) > 0 =>
           onCompleteLog' = onCompleteLog /\ onErrorLog' = onErrorLog
      /\ Len(onCompleteLog) > 0 =>
           onCompleteLog' = onCompleteLog /\ onErrorLog' = onErrorLog ]_vars

C30_Witness ==
  /\ opc = "completed"
  /\ onCompleteLog = <<result>>
  /\ result # <<>>
  /\ onErrorLog = <<>>
  /\ failedChunks >= 1
  /\ onProgressLog[Len(onProgressLog)] = 100

====
